---- MODULE Spec2Model ----
(***************************************************************************)
(* Real-time data orchestration core of Nebula-AI:                         *)
(*   RealTimeAPIOrchestrator, CircuitBreaker, RateLimiter and the          *)
(*   response cache (services/RealTimeAPIOrchestrator.ts).                 *)
(*                                                                         *)
(* Time is the value of Date.now() in milliseconds.  The clock is sampled  *)
(* every TimeStep milliseconds; timers and network replies may fire any    *)
(* number of times between two samples.                                    *)
(*                                                                         *)
(* Specifications:                                                         *)
(*   Spec         one startRealTimeStreams() call whose connection tests   *)
(*                and first health check succeed, poll ticks of the three  *)
(*                streams, stopAllStreams() once the start has returned.   *)
(*   SpecRestart  repeated startRealTimeStreams() calls with any probe     *)
(*                results, a few poll ticks.                               *)
(*   SpecBreaker  one CircuitBreaker under any sequence of its methods.    *)
(*   SpecLimiter  one RateLimiter of either API with concurrent callers of *)
(*                waitForToken(); SpecLimiterFair adds that pending timers *)
(*                fire and time passes.                                    *)
(*   SpecEmitter  one EventEmitter (services/base/EventEmitter) under      *)
(*                subscriptions, removals and nested emit() calls.         *)
(*   SpecTabs     a DynamicTabManager on top of the orchestrator.          *)
(*   SpecTabTimers  repeated initializeAllTabs() calls and cleanup()       *)
(*                of a DynamicTabManager, with its update timers counted.  *)
(*   SpecAlerts   createAlert() calls of any level and their auto-resolve  *)
(*                timers; SpecHistory fills the alert buffer past its      *)
(*                capacity with warnings.                                  *)
(*   SpecHealth   performHealthCheck() runs with any probe results.        *)
(*   SpecSweep    the data-quality sweep beside the poll ticks.            *)
(*   SpecRequest  N2YOAPIClient.makeRequest() (services/N2YOAPIClient.ts)  *)
(*                as the poll ticks of iss-position call it.               *)
(*   SpecSnapshot an EventEmitter whose listeners call on() and off()      *)
(*                during an emit().                                        *)
(***************************************************************************)
EXTENDS Integers, Sequences, FiniteSets, TLC

(***************************************************************************)
(* Bounds of the model.                                                    *)
(***************************************************************************)
MaxSteps == 1
MaxPolls == 4
MaxInFlight == 2
MaxStarts == 2
MaxRestartPolls == 2
MaxBreakerSteps == 3
MaxFailures == 6
MaxCallers == 2
LimiterResolution == 2
MaxWindowSteps == 6
MaxSubs == 2
MaxEmitDepth == 2
MaxViews == 3
MaxTabPolls == 2
MaxAlerts == 3
MaxAlertSteps == 2
MaxHistory == 52
MaxHistorySteps == 1
MaxProbeFailures == 3
MaxSweepPolls == 2
MaxTabInits == 2
MaxRequestTicks == 2
MaxAdded == 1

(***************************************************************************)
(* Program constants.                                                      *)
(***************************************************************************)
ResetTimeout == 60000
CacheTTL == 300000
RateLimitPerHour == 1000
RateLimitPerDay == 1000
SecondsPerHour == 3600
SecondsPerDay == 86400
Retries == 3
DailyRequestLimit == 1000
MsPerDay == 86400000
ThrottleDelay == 100
RateLimitBackoff == 2000
RetryBackoff == 1000
MinRequestInterval == MsPerDay \div DailyRequestLimit
BufferSeconds == 10
MaxListeners == 100
NasaTimeout == 10000
N2yoTimeout == 8000
AlertCapacity == 50
AutoResolveDelay == 300000

\* The orchestrator's clock is sampled once per cache lifetime, the clock of
\* a CircuitBreaker driven on its own once per reset timeout.
TimeStep == CacheTTL
MaxTime == MaxSteps * TimeStep
BreakerTimeStep == ResetTimeout
MaxBreakerTime == MaxBreakerSteps * BreakerTimeStep

Streams == {"iss-position", "active-satellites", "earth-imagery"}
Apis == {"nasa", "n2yo"}
TimerKeys == Streams \cup {"health-monitoring", "data-quality-monitoring"}

\* initializeCriticalStreams: the three registered stream definitions.
StreamConfig ==
  [s \in Streams |->
     CASE s = "iss-position" ->
            [priority |-> "critical", updateFrequency |-> 2000, maxRetries |-> 5,
             responseTime |-> 3000, dataAgeLimit |-> 10000]
       [] s = "active-satellites" ->
            [priority |-> "high", updateFrequency |-> 5000, maxRetries |-> 3,
             responseTime |-> 5000, dataAgeLimit |-> 30000]
       [] s = "earth-imagery" ->
            [priority |-> "medium", updateFrequency |-> 30000, maxRetries |-> 2,
             responseTime |-> 10000, dataAgeLimit |-> 120000]]

\* The upstream API a stream's fetch calls.
ApiOf(s) == IF s = "earth-imagery" THEN "nasa" ELSE "n2yo"

VARIABLES
  now,              \* Date.now()
  startPc,          \* position of the startRealTimeStreams() call
  starts,           \* number of startRealTimeStreams() calls made
  polls,            \* number of poll ticks begun
  stopped,          \* stopAllStreams() returned and no start was called since
  apiStatuses,      \* systemHealth.apiStatuses
  status,           \* systemHealth.status
  streamHealth,     \* StreamHealth objects allocated per stream, newest last
  circuitBreakers,  \* CircuitBreaker objects allocated per stream, newest last
  activeIntervals,  \* keys of the activeIntervals map
  liveTimers,       \* number of setInterval timers not cleared, per key
  inflight,         \* per stream, the poll ticks awaiting their fetch
  dataCache,        \* the response cache
  rateLimiters,     \* the rateLimiters map
  cb,               \* a CircuitBreaker driven directly through its methods
  last,             \* what the most recent step did and published
  limiter,          \* a RateLimiter driven directly through waitForToken()
  callers,          \* per caller of waitForToken(), where its call stands
  grants,           \* age in ms of each recent return of waitForToken()
  events,           \* EventEmitter.events: the listener array of each event
  stack,            \* the emit() calls in progress, innermost last
  nextSeq,          \* number of the next subscription
  fired,            \* per subscription, how often its handler was invoked
  busLast,          \* what the most recent EventEmitter step did
  tabPc,            \* how far the DynamicTabManager has been brought up
  activeHandlers,   \* keys of DynamicTabManager.activeHandlers
  updateIntervals,  \* keys of DynamicTabManager.updateIntervals
  tabTimers,        \* number of tab update intervals not cleared, per tab
  tabData,          \* DynamicTabManager.tabData: status and quality per tab
  tabLast,          \* what the most recent DynamicTabManager step published
  alerts,           \* systemHealth.alerts, filled through createAlert() alone
  alertTimers,      \* the auto-resolve timeouts not yet fired, oldest first
  alertsCreated,    \* number of createAlert() calls made
  requestCount,     \* N2YOAPIClient.requestCount
  lastRequestTime,  \* N2YOAPIClient.lastRequestTime
  attempt,          \* loop variable of the makeRequest() call in progress
  reqPc,            \* position of the makeRequest() call in progress
  requests,         \* the HTTP requests the current poll tick sent, oldest first
  tickStart,        \* time at which the current poll tick began
  reqTicks          \* number of poll ticks that called getISSPosition()

limVars == <<limiter, callers, grants>>

busVars == <<events, stack, nextSeq, fired, busLast>>

tabVars == <<tabPc, activeHandlers, updateIntervals, tabTimers, tabData, tabLast>>

alertVars == <<alerts, alertTimers, alertsCreated>>

reqVars == <<requestCount, lastRequestTime, attempt, reqPc, requests, tickStart,
             reqTicks>>

auxVars == <<limVars, busVars, tabVars, alertVars, reqVars>>

vars == <<now, startPc, starts, polls, stopped, apiStatuses, status, streamHealth,
          circuitBreakers, activeIntervals, liveTimers, inflight, dataCache,
          rateLimiters, cb, last, auxVars>>

orchVars == <<startPc, starts, polls, stopped, apiStatuses, status, streamHealth,
              circuitBreakers, activeIntervals, liveTimers, inflight, dataCache,
              rateLimiters>>

(***************************************************************************)
(* CircuitBreaker                                                          *)
(***************************************************************************)
NewBreaker(threshold) ==
  [failures |-> 0, lastFailTime |-> 0, state |-> "closed",
   failureThreshold |-> threshold]

\* Closes the breaker and keeps the failure count.
RecordSuccessKeepsCount(b) == [b EXCEPT !.state = "closed"]

RecordSuccess(b) == [b EXCEPT !.failures = 0, !.state = "closed"]

\* Trips one failure before the threshold.
RecordFailureEarly(b, t) ==
  [b EXCEPT !.failures = b.failures + 1,
            !.lastFailTime = t,
            !.state = IF b.failures + 1 >= b.failureThreshold - 1
                      THEN "open" ELSE b.state]

RecordFailure(b, t) ==
  [b EXCEPT !.failures = b.failures + 1,
            !.lastFailTime = t,
            !.state = IF b.failures + 1 >= b.failureThreshold
                      THEN "open" ELSE b.state]

\* Lets the trial through while the reset timeout is still running.
IsOpenInverted(b, t) ==
  IF b.state = "open"
  THEN IF t - b.lastFailTime < ResetTimeout
       THEN [open |-> FALSE, brk |-> [b EXCEPT !.state = "half-open"]]
       ELSE [open |-> TRUE, brk |-> b]
  ELSE [open |-> FALSE, brk |-> b]

\* Lets the trial through at the instant the reset timeout ends.
IsOpenEarly(b, t) ==
  IF b.state = "open"
  THEN IF t - b.lastFailTime >= ResetTimeout
       THEN [open |-> FALSE, brk |-> [b EXCEPT !.state = "half-open"]]
       ELSE [open |-> TRUE, brk |-> b]
  ELSE [open |-> FALSE, brk |-> b]

\* isOpen() returns a value and may change the breaker: the pair of both.
IsOpen(b, t) ==
  IF b.state = "open"
  THEN IF t - b.lastFailTime > ResetTimeout
       THEN [open |-> FALSE, brk |-> [b EXCEPT !.state = "half-open"]]
       ELSE [open |-> TRUE, brk |-> b]
  ELSE [open |-> FALSE, brk |-> b]

(***************************************************************************)
(* Telemetry payloads.  confidence is kept in thousandths (0.98 = 980).    *)
(***************************************************************************)
\* What the upstream call of a poll tick of s can come back with.  The four
\* position calls of active-satellites are awaited with Promise.allSettled:
\* "rejected" is all of them failing.
FetchOutcomes(s) ==
  CASE s = "iss-position" -> {"positions", "empty", "error"}
    [] s = "active-satellites" -> {"settled", "rejected"}
    [] s = "earth-imagery" -> {"image", "error"}

\* fetchISSPosition / fetchActiveSatellites / fetchEarthImagery: the
\* TelemetryData returned for a reply that does not throw.
Telemetry(s, outcome) ==
  CASE s = "iss-position" ->
         IF outcome = "positions"
         THEN [quality |-> "good", confidence |-> 980]
         ELSE [quality |-> "poor", confidence |-> 500]
    [] s = "active-satellites" -> [quality |-> "good", confidence |-> 920]
    [] s = "earth-imagery" -> [quality |-> "good", confidence |-> 950]

Throws(s, outcome) == outcome = "error"

\* The upstream API calls of the tick failed.
UpstreamFailed(s, outcome) == outcome \in {"error", "rejected"}

Event(name, s, quality, confidence, origin, retryable) ==
  [name |-> name, stream |-> s, quality |-> quality, confidence |-> confidence,
   origin |-> origin, retryable |-> retryable]

UpdateEvent(s, data, origin) ==
  Event("update", s, data.quality, data.confidence, origin, FALSE)

TelemetryUpdateEvent(s, data) ==
  Event("telemetry-update", s, data.quality, data.confidence, "live", FALSE)

ErrorEvent(s, retryable) == Event("error", s, "none", 0, "none", retryable)

\* createAlert: the Alert record built from a partial alert.
CreateAlert(level, message, source, t) ==
  [level |-> level, message |-> message, source |-> source, timestamp |-> t,
   acknowledged |-> FALSE, autoResolve |-> level # "emergency"]

(***************************************************************************)
(* Response cache                                                          *)
(***************************************************************************)
NoEntry ==
  [present |-> FALSE, quality |-> "none", confidence |-> 0, timestamp |-> 0,
   expiryTime |-> 0]

\* Keeps one entry for all streams.
CacheDataAll(cache, s, data, t) ==
  [b \in Streams |-> [present |-> TRUE, quality |-> data.quality,
                      confidence |-> data.confidence, timestamp |-> t,
                      expiryTime |-> t + CacheTTL]]

CacheData(cache, s, data, t) ==
  [cache EXCEPT ![s] = [present |-> TRUE, quality |-> data.quality,
                        confidence |-> data.confidence, timestamp |-> t,
                        expiryTime |-> t + CacheTTL]]

\* Serves the entry at the instant it expires.
CacheHitLate(entry, t) == entry.present /\ t <= entry.expiryTime

CacheHit(entry, t) == entry.present /\ t < entry.expiryTime

\* Marks the payload degraded and keeps its confidence.
DiscountedNone(data) == [quality |-> "poor", confidence |-> data.confidence]

Discounted(data) ==
  [quality |-> "poor", confidence |-> (data.confidence * 7) \div 10]

\* useCachedData: the events published and the alerts raised.
UseCachedData(cache, s, t) ==
  IF CacheHit(cache[s], t)
  THEN [events |-> <<UpdateEvent(s, Discounted(cache[s]), "cache")>>,
        alerts |-> <<>>]
  ELSE [events |-> <<>>,
        alerts |-> <<CreateAlert("warning", "no-cached-data", s, t)>>]

(***************************************************************************)
(* RateLimiter.  getRateLimiter constructs the limiter of an API with      *)
(* requestsPerSecond = rateLimitPerHour / 3600 (nasa) or                   *)
(* rateLimitPerDay / 86400 (n2yo).  Token amounts are kept in units of     *)
(* 1/TokenMs of a token, TokenMs being the milliseconds in which one token *)
(* is refilled: refillTokens then adds one unit per elapsed millisecond,   *)
(* maxTokens (ten seconds of refill) is 10000 units and "tokens < 1" is    *)
(* "tokens < TokenMs".  sinceRefill is Date.now() - lastRefill; once it    *)
(* has reached MaxTokens a longer wait refills no more.                    *)
(***************************************************************************)
Callers == 1..MaxCallers

TokenMs(api) ==
  IF api = "nasa" THEN (1000 * SecondsPerHour) \div RateLimitPerHour
  ELSE (1000 * SecondsPerDay) \div RateLimitPerDay

MaxTokens == BufferSeconds * 1000

Min(a, b) == IF a <= b THEN a ELSE b

NewLimiter(api) == [api |-> api, tokens |-> MaxTokens, sinceRefill |-> 0]

\* Adds the elapsed time again on every call: lastRefill is never moved.
RefillTokensNoStamp(l) ==
  [l EXCEPT !.tokens = Min(MaxTokens, l.tokens + l.sinceRefill)]

RefillTokens(l) ==
  [l EXCEPT !.tokens = Min(MaxTokens, l.tokens + l.sinceRefill),
            !.sinceRefill = 0]

\* waitForToken up to its await or its return: whether a token was taken,
\* and the limiter afterwards.
TakeToken(l) ==
  LET r == RefillTokens(l)
  IN IF r.tokens < TokenMs(l.api)
     THEN [granted |-> FALSE, lim |-> r]
     ELSE [granted |-> TRUE, lim |-> [r EXCEPT !.tokens = @ - TokenMs(l.api)]]

\* setTimeout(resolve, waitTime) of waitForToken.
WaitTime(l) == TokenMs(l.api)

(***************************************************************************)
(* EventEmitter (utils/EventEmitter.ts).  A listener array holds entries   *)
(* [fn, wrapper, front, seq]: fn is the handler, wrapper tells the         *)
(* onceWrapper closure of once()/prependOnceListener() from fn itself,     *)
(* front tells an entry that was prepended, seq numbers the subscriptions  *)
(* in the order they were made.  A handler returns, throws, or emits the   *)
(* event it was invoked for again before it returns.                       *)
(***************************************************************************)
EventNames == {"data", "error"}

Handlers == {"ok", "throws", "reemits"}

\* Listeners that change the listener array of the event they are invoked
\* for: "adds" calls on(event, ok), "removes" calls off(event, adds).
SnapshotHandlers == {"ok", "adds", "removes"}

Entry(h, wrapper, front, n) ==
  [fn |-> h, wrapper |-> wrapper, front |-> front, seq |-> n]

\* listeners.push(listener), refused at maxListeners.
Pushed(ls, entry) == IF Len(ls) >= MaxListeners THEN ls ELSE Append(ls, entry)

\* listeners.unshift(listener), refused at maxListeners.
Unshifted(ls, entry) == IF Len(ls) >= MaxListeners THEN ls ELSE <<entry>> \o ls

\* The function object an entry of the array holds: every once() call makes
\* a wrapper of its own, a handler subscribed directly is the same object
\* at each of its subscriptions.
ListenerOf(x) == [fn |-> x.fn, wrapperOf |-> IF x.wrapper THEN x.seq ELSE 0]

\* listeners.indexOf(listener): 0 when absent.
IndexOf(ls, listener) ==
  IF \E i \in 1..Len(ls) : ListenerOf(ls[i]) = listener
  THEN CHOOSE i \in 1..Len(ls) :
         /\ ListenerOf(ls[i]) = listener
         /\ \A j \in 1..(i - 1) : ListenerOf(ls[j]) # listener
  ELSE 0

\* off(event, listener): splice out the first occurrence.
Spliced(ls, listener) ==
  LET i == IndexOf(ls, listener)
  IN IF i = 0 THEN ls ELSE SubSeq(ls, 1, i - 1) \o SubSeq(ls, i + 1, Len(ls))

\* The catch block of emit re-publishes on 'error' whatever the event.
RethrownAlways(e) == TRUE

\* The catch block of emit: is the error re-published on 'error'?
Rethrown(e) == e # "error"

\* The frame of an emit() call that found listeners: listenersCopy and the
\* position of its for loop, with the array as it was when emit was called
\* and the entries invoked so far.
Frame(e, ls, cause) ==
  [event |-> e, copy |-> ls, idx |-> 1, atEmit |-> ls, invoked |-> <<>>,
   cause |-> cause]

\* emit(e) up to its first listener: nothing to run when there is none.
EmitFrames(evs, e, cause) ==
  IF evs[e] = <<>> THEN <<>> ELSE <<Frame(e, evs[e], cause)>>

BusStep(op, e, threw, republished, depthBefore, errorListeners) ==
  [op |-> op, event |-> e, threw |-> threw, republished |-> republished,
   depthBefore |-> depthBefore, errorListeners |-> errorListeners]

(***************************************************************************)
(* DynamicTabManager (services/DynamicTabManager.ts).                      *)
(***************************************************************************)
\* initializeTabConfigurations: the tab ids, in the order of the source.
TabIds ==
  <<"dashboard", "mission-control", "satellite-tracking", "mission-simulation",
    "mission-control-center", "training-hub", "resource-manager",
    "team-coordination">>

Tabs == {TabIds[i] : i \in 1..Len(TabIds)}

\* The tabs that are switched to and whose update timer is followed.
ViewedTabs == {TabIds[i] : i \in 1..MaxViews}

\* initializeTabConfigurations: dataRequirements of each tab.
DataRequirements(tab) ==
  CASE tab = "dashboard" -> {"system-health", "iss-position", "active-satellites"}
    [] tab = "mission-control" -> {"iss-position", "telemetry"}
    [] tab = "satellite-tracking" ->
         {"active-satellites", "orbital-data", "tracking-data"}
    [] tab = "mission-simulation" -> {"simulation-data", "scenario-updates"}
    [] tab = "mission-control-center" ->
         {"live-telemetry", "console-displays", "system-status"}
    [] tab = "training-hub" -> {"training-scenarios", "performance-metrics"}
    [] tab = "resource-manager" ->
         {"resource-allocation", "bandwidth-usage", "power-consumption"}
    [] tab = "team-coordination" -> {"team-status", "communication-logs"}

\* The requirements of a tab that are streams of the orchestrator.
RequiredStreams(tab) == DataRequirements(tab) \cap Streams

\* The class declares getTabData twice.  updateTab gets either the object
\* assembled by the private method from fixed values ("stub") or, when the
\* later declaration prevails, the TabData record of the tab ("tabData").
TabDataOrigins == {"stub", "tabData"}

TabEvent(name, tab, origin, s) ==
  [name |-> name, tab |-> tab, origin |-> origin, stream |-> s]

TabStep(op, tab, published) == [op |-> op, tab |-> tab, events |-> published]

\* updateTab: the events emitted, none when the tab has no handler.
UpdateTabEvents(tab, origin) ==
  IF tab \in activeHandlers
  THEN <<TabEvent("tab-updated", tab, origin, "none")>>
  ELSE <<>>

\* updateTab: the TabData records afterwards.
UpdateTabData(tab) ==
  IF tab \in activeHandlers
  THEN [tabData EXCEPT ![tab] = [status |-> "live", quality |-> "excellent"]]
  ELSE tabData

(***************************************************************************)
(* The alert buffer.  createAlert pushes the alert, keeps the last         *)
(* AlertCapacity alerts and, unless the level is 'emergency', sets a       *)
(* timeout that acknowledges the alert found by its id.  The id of an      *)
(* alert is the number of the createAlert() call that made it.             *)
(***************************************************************************)
AlertLevels == {"warning", "emergency"}

Identified(alert, id) == [id |-> id] @@ alert

\* Keeps the first AlertCapacity alerts.
RetainedOldest(buf) ==
  IF Len(buf) > AlertCapacity THEN SubSeq(buf, 1, AlertCapacity) ELSE buf

\* alerts.slice(-50) once the length exceeds 50.
Retained(buf) ==
  IF Len(buf) > AlertCapacity
  THEN SubSeq(buf, Len(buf) - AlertCapacity + 1, Len(buf))
  ELSE buf

\* alerts.findIndex(a => a.id === id): 0 when absent.
FindIndex(buf, id) ==
  IF \E i \in 1..Len(buf) : buf[i].id = id
  THEN CHOOSE i \in 1..Len(buf) :
         buf[i].id = id /\ \A j \in 1..(i - 1) : buf[j].id # id
  ELSE 0

\* Acknowledges the oldest alert held.
AutoAcknowledgeFirst(buf, id) ==
  IF buf = <<>> THEN buf ELSE [buf EXCEPT ![1].acknowledged = TRUE]

\* The callback of the auto-resolve timeout.
AutoAcknowledge(buf, id) ==
  LET i == FindIndex(buf, id)
  IN IF i = 0 THEN buf ELSE [buf EXCEPT ![i].acknowledged = TRUE]

(***************************************************************************)
(* Objects held by reference.  A poll tick keeps the CircuitBreaker and    *)
(* the StreamHealth object it looked up when it began; a later             *)
(* registration of the stream allocates new ones.  An object that is       *)
(* neither the stream's current one nor held by a tick in flight cannot be *)
(* read again and is replaced by a fixed value.                            *)
(***************************************************************************)
NewHealth(t) == [isActive |-> FALSE, errorCount |-> 0, lastDataReceived |-> t]

DeadHealth == [isActive |-> FALSE, errorCount |-> 0, lastDataReceived |-> 0]

DeadBreaker == NewBreaker(0)

Current(objs) == objs[Len(objs)]

Held(flights, g) == \E i \in 1..Len(flights) : flights[i].gen = g

Reachable(objs, flights, dead) ==
  [g \in 1..Len(objs) |->
     IF g = Len(objs) \/ Held(flights, g) THEN objs[g] ELSE dead]

RemoveAt(seq, i) == SubSeq(seq, 1, i - 1) \o SubSeq(seq, i + 1, Len(seq))

Step(op, s, path, open, before, active, emitted, raised) ==
  [op |-> op, stream |-> s, path |-> path, open |-> open, before |-> before,
   active |-> active, events |-> emitted, alerts |-> raised]

(***************************************************************************)
(* startRealTimeStreams                                                    *)
(***************************************************************************)
\* The call begins: the API clients are created and both connection tests
\* are awaited.
StartRealTimeStreams ==
  /\ startPc \in {"idle", "done"}
  /\ starts' = starts + 1
  /\ startPc' = "testing"
  /\ stopped' = FALSE
  /\ last' = Step("start", "none", "none", FALSE, "none", FALSE, <<>>, <<>>)
  /\ UNCHANGED <<now, polls, apiStatuses, status, streamHealth, circuitBreakers,
                 activeIntervals, liveTimers, inflight, dataCache, rateLimiters,
                 cb, auxVars>>

\* registerDataStream followed by startDataStream, for one stream.
RegisterAndStartHealth(objs, flights, t) ==
  Reachable(Append(objs, [NewHealth(t) EXCEPT !.isActive = TRUE]), flights,
            DeadHealth)

RegisterAndStartBreaker(objs, flights, s) ==
  Reachable(Append(objs, NewBreaker(StreamConfig[s].maxRetries)), flights,
            DeadBreaker)

\* Both connection tests have settled: the online flags are set, then
\* initializeCriticalStreams registers and starts the three streams and the
\* first health check is awaited.
ConnectionsTested(nasaOk, n2yoOk) ==
  /\ startPc = "testing"
  /\ startPc' = "health"
  /\ apiStatuses' = [apiStatuses EXCEPT !["nasa"].isOnline = nasaOk,
                                        !["n2yo"].isOnline = n2yoOk]
  /\ streamHealth' =
       [s \in Streams |-> RegisterAndStartHealth(streamHealth[s], inflight[s], now)]
  /\ circuitBreakers' =
       [s \in Streams |-> RegisterAndStartBreaker(circuitBreakers[s], inflight[s], s)]
  /\ liveTimers' = [k \in TimerKeys |->
                      IF k \in Streams THEN liveTimers[k] + 1 ELSE liveTimers[k]]
  /\ activeIntervals' = activeIntervals \cup Streams
  /\ last' = Step("connected", "none", "none", FALSE, "none", FALSE, <<>>, <<>>)
  /\ UNCHANGED <<now, starts, polls, stopped, status, inflight, dataCache,
                 rateLimiters, cb, auxVars>>

\* performHealthCheck, after both probes have settled.
ProbeResult(st, ok) ==
  IF ok THEN [st EXCEPT !.isOnline = TRUE, !.consecutiveFailures = 0]
  ELSE [st EXCEPT !.isOnline = FALSE,
                  !.consecutiveFailures = st.consecutiveFailures + 1]

\* Knows no 'degraded': anything short of both online is 'critical'.
AggregateStatusStrict(nasaOnline, n2yoOnline) ==
  IF nasaOnline /\ n2yoOnline THEN "operational" ELSE "critical"

AggregateStatus(nasaOnline, n2yoOnline) ==
  IF nasaOnline /\ n2yoOnline THEN "operational"
  ELSE IF nasaOnline \/ n2yoOnline THEN "degraded"
  ELSE "critical"

\* The first health check has settled: startHealthMonitoring and
\* startDataQualityMonitoring set their intervals and the call returns.
HealthChecked(nasaOk, n2yoOk) ==
  /\ startPc = "health"
  /\ startPc' = "done"
  /\ apiStatuses' = [apiStatuses EXCEPT !["nasa"] = ProbeResult(@, nasaOk),
                                        !["n2yo"] = ProbeResult(@, n2yoOk)]
  /\ status' = AggregateStatus(nasaOk, n2yoOk)
  /\ liveTimers' = [k \in TimerKeys |->
                      IF k \in Streams THEN liveTimers[k] ELSE liveTimers[k] + 1]
  /\ activeIntervals' =
       activeIntervals \cup {"health-monitoring", "data-quality-monitoring"}
  /\ last' = Step("initialized", "none", "none", FALSE, "none", FALSE,
                  <<Event("health-check-complete", "none", "none", 0, "none", FALSE),
                    Event("system-initialized", "none", "none", 0, "none", FALSE)>>,
                  <<>>)
  /\ UNCHANGED <<now, starts, polls, stopped, streamHealth, circuitBreakers,
                 inflight, dataCache, rateLimiters, cb, auxVars>>

\* A health check started by one of the two 30 s intervals (the one the
\* constructor sets, which nothing clears, and 'health-monitoring'), after
\* both probes have settled.  Before the first startRealTimeStreams() call
\* the API clients do not exist and both probes throw.
PerformHealthCheck(nasaOk, n2yoOk) ==
  /\ starts = 0 => ~nasaOk /\ ~n2yoOk
  /\ ~nasaOk => apiStatuses["nasa"].consecutiveFailures < MaxProbeFailures
  /\ ~n2yoOk => apiStatuses["n2yo"].consecutiveFailures < MaxProbeFailures
  /\ apiStatuses' = [apiStatuses EXCEPT !["nasa"] = ProbeResult(@, nasaOk),
                                        !["n2yo"] = ProbeResult(@, n2yoOk)]
  /\ status' = AggregateStatus(nasaOk, n2yoOk)
  /\ last' = Step("health-check", "none", "none", FALSE, "none", FALSE,
                  <<Event("health-check-complete", "none", "none", 0, "none", FALSE)>>,
                  <<>>)
  /\ UNCHANGED <<now, startPc, starts, polls, stopped, streamHealth,
                 circuitBreakers, activeIntervals, liveTimers, inflight,
                 dataCache, rateLimiters, cb, auxVars>>

\* The callback of the 'data-quality-monitoring' interval: one pass over
\* systemHealth.dataStreams in the order of registration.
StreamOrder == <<"iss-position", "active-satellites", "earth-imagery">>

Stale(s, t) ==
  /\ Len(streamHealth[s]) > 0
  /\ t - Current(streamHealth[s]).lastDataReceived > StreamConfig[s].dataAgeLimit

StaleAlerts(t) ==
  LET stale == SelectSeq(StreamOrder, LAMBDA s : Stale(s, t))
  IN [i \in 1..Len(stale) |-> CreateAlert("warning", "stale-data", stale[i], t)]

DataQualitySweep ==
  /\ liveTimers["data-quality-monitoring"] > 0
  /\ last' = Step("sweep", "none", "none", FALSE, "none", FALSE, <<>>,
                  StaleAlerts(now))
  /\ UNCHANGED <<now, orchVars, cb, auxVars>>

(***************************************************************************)
(* stopAllStreams                                                          *)
(***************************************************************************)
Deactivate(objs) == [objs EXCEPT ![Len(objs)].isActive = FALSE]

StopAllStreams ==
  /\ liveTimers' = [k \in TimerKeys |->
                      IF k \in activeIntervals THEN liveTimers[k] - 1
                      ELSE liveTimers[k]]
  /\ streamHealth' = [s \in Streams |->
                        IF s \in activeIntervals /\ Len(streamHealth[s]) > 0
                        THEN Deactivate(streamHealth[s]) ELSE streamHealth[s]]
  /\ activeIntervals' = {}
  /\ stopped' = TRUE
  /\ last' = Step("stop", "none", "none", FALSE, "none", FALSE, <<>>, <<>>)
  /\ UNCHANGED <<now, startPc, starts, polls, apiStatuses, status,
                 circuitBreakers, inflight, dataCache, rateLimiters, cb, auxVars>>

(***************************************************************************)
(* fetchStreamData: one poll tick of stream s.  The tick runs to its       *)
(* await of the upstream call (FetchStreamData) and continues when that    *)
(* call settles (FetchSettled).                                            *)
(***************************************************************************)
FetchStreamData(s) ==
  /\ liveTimers[s] > 0
  /\ polls' = polls + 1
  /\ Len(circuitBreakers[s]) > 0
  /\ Len(streamHealth[s]) > 0
  /\ LET g == Len(circuitBreakers[s])
         b == circuitBreakers[s][g]
         r == IsOpen(b, now)
         h == Current(streamHealth[s])
         u == UseCachedData(dataCache, s, now)
     IN /\ circuitBreakers' = [circuitBreakers EXCEPT ![s][g] = r.brk]
        /\ IF r.open
           THEN /\ inflight' = inflight
                /\ last' = Step("tick", s,
                                IF u.events # <<>> THEN "cached" ELSE "nocache",
                                TRUE, b.state, h.isActive, u.events, u.alerts)
           ELSE /\ inflight' = [inflight EXCEPT
                                  ![s] = Append(@, [start |-> now, gen |-> g])]
                /\ last' = Step("tick", s, "fetch", FALSE, b.state, h.isActive,
                                <<>>, <<>>)
  /\ UNCHANGED <<now, startPc, starts, stopped, apiStatuses, status, streamHealth,
                 activeIntervals, liveTimers, dataCache, rateLimiters, cb, auxVars>>

\* Lines 394-421: the upstream call returned data.
FetchSucceeded(s, i, data) ==
  LET f == inflight[s][i]
      g == f.gen
      flights == RemoveAt(inflight[s], i)
      responseTime == now - f.start
      slow == IF responseTime > StreamConfig[s].responseTime
              THEN <<CreateAlert("warning", "high-response-time", s, now)>>
              ELSE <<>>
      health == [streamHealth[s] EXCEPT ![g].lastDataReceived = now,
                                        ![g].errorCount = 0]
      breakers == [circuitBreakers[s] EXCEPT ![g] = RecordSuccess(@)]
  IN /\ inflight' = [inflight EXCEPT ![s] = flights]
     /\ streamHealth' =
          [streamHealth EXCEPT ![s] = Reachable(health, flights, DeadHealth)]
     /\ circuitBreakers' =
          [circuitBreakers EXCEPT ![s] = Reachable(breakers, flights, DeadBreaker)]
     /\ dataCache' = CacheData(dataCache, s, data, now)
     /\ last' = Step("settled", s, "success", FALSE,
                     Current(circuitBreakers[s]).state,
                     Current(streamHealth[s]).isActive,
                     <<UpdateEvent(s, data, "live"),
                       TelemetryUpdateEvent(s, data)>>,
                     slow)

\* Lines 423-440 and handleStreamError: the upstream call threw.
FetchFailed(s, i) ==
  LET f == inflight[s][i]
      g == f.gen
      cur == Len(streamHealth[s])
      flights == RemoveAt(inflight[s], i)
      counted == [streamHealth[s] EXCEPT ![g].errorCount = @ + 1]
      retryable == counted[g].errorCount < StreamConfig[s].maxRetries
      health == [counted EXCEPT ![cur].errorCount = @ + 1]
      breakers == [circuitBreakers[s] EXCEPT ![g] = RecordFailure(@, now)]
      level == IF StreamConfig[s].priority = "critical" THEN "critical"
               ELSE "warning"
      u == UseCachedData(dataCache, s, now)
  IN /\ inflight' = [inflight EXCEPT ![s] = flights]
     /\ streamHealth' =
          [streamHealth EXCEPT ![s] = Reachable(health, flights, DeadHealth)]
     /\ circuitBreakers' =
          [circuitBreakers EXCEPT ![s] = Reachable(breakers, flights, DeadBreaker)]
     /\ dataCache' = dataCache
     /\ last' = Step("settled", s, "failure", FALSE,
                     Current(circuitBreakers[s]).state,
                     Current(streamHealth[s]).isActive,
                     <<ErrorEvent(s, retryable)>> \o u.events,
                     <<CreateAlert(level, "stream-error", s, now)>> \o u.alerts)

FetchSettled(s, i, outcome) ==
  /\ i \in 1..Len(inflight[s])
  /\ IF Throws(s, outcome)
     THEN FetchFailed(s, i)
     ELSE FetchSucceeded(s, i, Telemetry(s, outcome))
  /\ UNCHANGED <<now, startPc, starts, polls, stopped, apiStatuses, status,
                 activeIntervals, liveTimers, rateLimiters, cb, auxVars>>

(***************************************************************************)
(* The clock.                                                              *)
(***************************************************************************)
AdvanceTime ==
  /\ now < MaxTime
  /\ now' = now + TimeStep
  /\ last' = Step("time", "none", "none", FALSE, "none", FALSE, <<>>, <<>>)
  /\ UNCHANGED <<orchVars, cb, auxVars>>

(***************************************************************************)
(* The orchestrator.                                                       *)
(***************************************************************************)
InitOrchestrator ==
  /\ startPc = "idle"
  /\ starts = 0
  /\ polls = 0
  /\ stopped = FALSE
  /\ apiStatuses = [a \in Apis |-> [isOnline |-> TRUE, consecutiveFailures |-> 0]]
  /\ status = "operational"
  /\ streamHealth = [s \in Streams |-> <<>>]
  /\ circuitBreakers = [s \in Streams |-> <<>>]
  /\ activeIntervals = {}
  /\ liveTimers = [k \in TimerKeys |-> 0]
  /\ inflight = [s \in Streams |-> <<>>]
  /\ dataCache = [s \in Streams |-> NoEntry]
  /\ rateLimiters = <<>>

\* The objects driven on their own, at rest.
InitLimiterVars ==
  /\ limiter = NewLimiter("nasa")
  /\ callers = [c \in Callers |-> [pc |-> "idle", wait |-> 0]]
  /\ grants = <<>>

InitBusVars ==
  /\ events = [e \in EventNames |-> <<>>]
  /\ stack = <<>>
  /\ nextSeq = 1
  /\ fired = [n \in 1..MaxSubs |-> 0]
  /\ busLast = BusStep("init", "none", FALSE, 0, 0, 0)

InitTabVars ==
  /\ tabPc = "new"
  /\ activeHandlers = {}
  /\ updateIntervals = {}
  /\ tabTimers = [tab \in Tabs |-> 0]
  /\ tabData = [tab \in Tabs |-> [status |-> "stale", quality |-> "poor"]]
  /\ tabLast = TabStep("init", "none", <<>>)

InitAlertVars ==
  /\ alerts = <<>>
  /\ alertTimers = <<>>
  /\ alertsCreated = 0

InitRequestVars ==
  /\ requestCount = 0
  /\ lastRequestTime = 0 - MinRequestInterval
  /\ attempt = 0
  /\ reqPc = "idle"
  /\ requests = <<>>
  /\ tickStart = 0
  /\ reqTicks = 0

InitAux ==
  InitLimiterVars /\ InitBusVars /\ InitTabVars /\ InitAlertVars /\ InitRequestVars

Init ==
  /\ now = 0
  /\ InitOrchestrator
  /\ InitAux
  /\ cb = NewBreaker(StreamConfig["iss-position"].maxRetries)
  /\ last = Step("init", "none", "none", FALSE, "none", FALSE, <<>>, <<>>)

Settle ==
  \E s \in Streams : \E i \in 1..Len(inflight[s]) :
    \E outcome \in FetchOutcomes(s) : FetchSettled(s, i, outcome)

Poll ==
  \E s \in Streams : Len(inflight[s]) < MaxInFlight /\ FetchStreamData(s)

Stop == startPc \in {"idle", "done"} /\ StopAllStreams

Next ==
  \/ starts = 0 /\ StartRealTimeStreams
  \/ ConnectionsTested(TRUE, TRUE)
  \/ HealthChecked(TRUE, TRUE)
  \/ Stop
  \/ polls < MaxPolls /\ Poll
  \/ Settle
  \/ AdvanceTime

Spec == Init /\ [][Next]_vars

NextRestart ==
  \/ starts < MaxStarts /\ StartRealTimeStreams
  \/ \E nasaOk \in BOOLEAN, n2yoOk \in BOOLEAN : ConnectionsTested(nasaOk, n2yoOk)
  \/ \E nasaOk \in BOOLEAN, n2yoOk \in BOOLEAN : HealthChecked(nasaOk, n2yoOk)
  \/ Stop
  \/ polls < MaxRestartPolls /\ Poll
  \/ Settle
  \/ AdvanceTime

SpecRestart == Init /\ [][NextRestart]_vars

\* Restarts, a few poll ticks and the data-quality sweep.
NextSweep ==
  \/ starts < MaxStarts /\ StartRealTimeStreams
  \/ ConnectionsTested(TRUE, TRUE)
  \/ HealthChecked(TRUE, TRUE)
  \/ polls < MaxSweepPolls /\ Poll
  \/ Settle
  \/ DataQualitySweep
  \/ AdvanceTime

SpecSweep == Init /\ [][NextSweep]_vars

\* Starts, stops and health checks alone, with any probe results.
NextHealth ==
  \/ starts < MaxStarts /\ StartRealTimeStreams
  \/ \E nasaOk \in BOOLEAN, n2yoOk \in BOOLEAN : ConnectionsTested(nasaOk, n2yoOk)
  \/ \E nasaOk \in BOOLEAN, n2yoOk \in BOOLEAN : HealthChecked(nasaOk, n2yoOk)
  \/ \E nasaOk \in BOOLEAN, n2yoOk \in BOOLEAN : PerformHealthCheck(nasaOk, n2yoOk)
  \/ Stop

SpecHealth == Init /\ [][NextHealth]_vars

(***************************************************************************)
(* A CircuitBreaker under any sequence of its three methods.               *)
(***************************************************************************)
Thresholds == {StreamConfig[s].maxRetries : s \in Streams}

CbStep(op, open, before) ==
  Step(op, "none", "none", open, before, FALSE, <<>>, <<>>)

CbRecordSuccess ==
  /\ cb' = RecordSuccess(cb)
  /\ last' = CbStep("recordSuccess", FALSE, cb.state)
  /\ UNCHANGED <<now, orchVars, auxVars>>

CbRecordFailure ==
  /\ cb' = RecordFailure(cb, now)
  /\ last' = CbStep("recordFailure", FALSE, cb.state)
  /\ UNCHANGED <<now, orchVars, auxVars>>

CbIsOpen ==
  /\ cb' = IsOpen(cb, now).brk
  /\ last' = CbStep("isOpen", IsOpen(cb, now).open, cb.state)
  /\ UNCHANGED <<now, orchVars, auxVars>>

InitBreaker ==
  /\ now = 0
  /\ InitOrchestrator
  /\ cb \in {NewBreaker(th) : th \in Thresholds}
  /\ InitAux
  /\ last = Step("init", "none", "none", FALSE, "none", FALSE, <<>>, <<>>)

CbAdvanceTime ==
  /\ now < MaxBreakerTime
  /\ now' = now + BreakerTimeStep
  /\ last' = CbStep("time", FALSE, "none")
  /\ UNCHANGED <<orchVars, cb, auxVars>>

NextBreaker ==
  \/ CbRecordSuccess
  \/ cb.failures < MaxFailures /\ CbRecordFailure
  \/ CbIsOpen
  \/ CbAdvanceTime

SpecBreaker == InitBreaker /\ [][NextBreaker]_vars

(***************************************************************************)
(* A RateLimiter shared by the callers of waitForToken().  Time passes in  *)
(* steps of LimiterStep; a setTimeout that is due fires before time moves  *)
(* on.  grants holds the age of every return of waitForToken() made within *)
(* the last LimiterWindow milliseconds, oldest first.                      *)
(***************************************************************************)
LimiterStep == TokenMs(limiter.api) \div LimiterResolution

LimiterWindow == MaxWindowSteps * LimiterStep

\* One run of waitForToken by caller c, from its entry or from the
\* recursive call made when its setTimeout fires.
RunWaitForToken(c) ==
  LET r == TakeToken(limiter)
  IN /\ limiter' = r.lim
     /\ IF r.granted
        THEN /\ callers' = [callers EXCEPT ![c] = [pc |-> "idle", wait |-> 0]]
             /\ grants' = Append(grants, 0)
        ELSE /\ callers' = [callers EXCEPT
                              ![c] = [pc |-> "sleeping", wait |-> WaitTime(r.lim)]]
             /\ grants' = grants
     /\ UNCHANGED <<now, orchVars, cb, last, busVars, tabVars, alertVars, reqVars>>

WaitForToken(c) == callers[c].pc = "idle" /\ RunWaitForToken(c)

TimerFired(c) ==
  /\ callers[c].pc = "sleeping"
  /\ callers[c].wait = 0
  /\ RunWaitForToken(c)

Aged(ages, d) ==
  SelectSeq([i \in 1..Len(ages) |-> ages[i] + d], LAMBDA a : a <= LimiterWindow)

LimiterTick ==
  /\ \A c \in Callers : callers[c].pc = "sleeping" => callers[c].wait >= LimiterStep
  /\ limiter' = [limiter EXCEPT
                   !.sinceRefill = Min(MaxTokens, @ + LimiterStep)]
  /\ callers' = [c \in Callers |->
                   IF callers[c].pc = "sleeping"
                   THEN [callers[c] EXCEPT !.wait = @ - LimiterStep]
                   ELSE callers[c]]
  /\ grants' = Aged(grants, LimiterStep)
  /\ UNCHANGED <<now, orchVars, cb, last, busVars, tabVars, alertVars, reqVars>>

InitLimiter ==
  /\ now = 0
  /\ InitOrchestrator
  /\ cb = NewBreaker(StreamConfig["iss-position"].maxRetries)
  /\ last = Step("init", "none", "none", FALSE, "none", FALSE, <<>>, <<>>)
  /\ limiter \in {NewLimiter(api) : api \in Apis}
  /\ callers = [c \in Callers |-> [pc |-> "idle", wait |-> 0]]
  /\ grants = <<>>
  /\ InitBusVars
  /\ InitTabVars
  /\ InitAlertVars
  /\ InitRequestVars

NextLimiter ==
  \/ \E c \in Callers : WaitForToken(c)
  \/ \E c \in Callers : TimerFired(c)
  \/ LimiterTick

SpecLimiter == InitLimiter /\ [][NextLimiter]_vars

\* Timers keep firing and time keeps passing.
SpecLimiterFair ==
  /\ SpecLimiter
  /\ WF_vars(LimiterTick)
  /\ \A c \in Callers : WF_vars(TimerFired(c))

(***************************************************************************)
(* An EventEmitter under any sequence of subscriptions, removals and       *)
(* emits.  emit() is synchronous: while a call is in progress only its     *)
(* listeners run.                                                          *)
(***************************************************************************)
Subscribe(e, ls) ==
  /\ stack = <<>>
  /\ nextSeq <= MaxSubs
  /\ events' = [events EXCEPT ![e] = ls]
  /\ nextSeq' = nextSeq + 1
  /\ busLast' = BusStep("subscribe", e, FALSE, 0, 0, Len(events["error"]))
  /\ UNCHANGED <<stack, fired>>
  /\ UNCHANGED <<now, orchVars, cb, last, limVars, tabVars, alertVars, reqVars>>

On(e, h) == Subscribe(e, Pushed(events[e], Entry(h, FALSE, FALSE, nextSeq)))

Once(e, h) == Subscribe(e, Pushed(events[e], Entry(h, TRUE, FALSE, nextSeq)))

PrependListener(e, h) ==
  Subscribe(e, Unshifted(events[e], Entry(h, FALSE, TRUE, nextSeq)))

PrependOnceListener(e, h) ==
  Subscribe(e, Unshifted(events[e], Entry(h, TRUE, TRUE, nextSeq)))

Off(e, h) ==
  /\ stack = <<>>
  /\ events' = [events EXCEPT
                  ![e] = Spliced(@, [fn |-> h, wrapperOf |-> 0])]
  /\ busLast' = BusStep("off", e, FALSE, 0, 0, Len(events["error"]))
  /\ UNCHANGED <<stack, nextSeq, fired>>
  /\ UNCHANGED <<now, orchVars, cb, last, limVars, tabVars, alertVars, reqVars>>

\* emit(e) called from outside any listener.
Emit(e) ==
  /\ stack = <<>>
  /\ stack' = EmitFrames(events, e, "external")
  /\ busLast' = BusStep("emit", e, FALSE, 0, 0, Len(events["error"]))
  /\ UNCHANGED <<events, nextSeq, fired>>
  /\ UNCHANGED <<now, orchVars, cb, last, limVars, tabVars, alertVars, reqVars>>

\* The copy followed by the listeners subscribed since it was taken.
IteratedWithLate(f) ==
  f.copy \o SelectSeq(events[f.event],
                      LAMBDA x : \A i \in 1..Len(f.copy) : f.copy[i].seq # x.seq)

\* The array the for loop of a frame runs over.
IteratedLive(f) == events[f.event]

Iterated(f) == f.copy

\* One pass of the for loop of the innermost emit(): listener(...args) and
\* the catch block.
Invoke ==
  /\ stack # <<>>
  /\ LET n == Len(stack)
         f == stack[n]
         arr == Iterated(f)
     IN /\ f.idx <= Len(arr)
        /\ arr[f.idx].fn = "adds" => nextSeq <= MaxSubs + MaxAdded
        /\ LET entry == arr[f.idx]
               own == IF entry.wrapper
                      THEN [events EXCEPT
                              ![f.event] = Spliced(@, ListenerOf(entry))]
                      ELSE events
               evs == CASE entry.fn = "adds" ->
                             [own EXCEPT
                                ![f.event] =
                                   Pushed(@, Entry("ok", FALSE, FALSE, nextSeq))]
                        [] entry.fn = "removes" ->
                             [own EXCEPT
                                ![f.event] =
                                   Spliced(@, [fn |-> "adds", wrapperOf |-> 0])]
                        [] OTHER -> own
               threw == entry.fn = "throws"
               nested ==
                 IF threw /\ Rethrown(f.event)
                 THEN EmitFrames(evs, "error", "rethrow")
                 ELSE IF entry.fn = "reemits" /\ n < MaxEmitDepth
                 THEN EmitFrames(evs, f.event, "reentrant")
                 ELSE <<>>
               g == [f EXCEPT !.idx = @ + 1, !.invoked = Append(@, entry)]
           IN /\ events' = evs
              /\ fired' = IF entry.wrapper
                          THEN [fired EXCEPT ![entry.seq] = @ + 1]
                          ELSE fired
              /\ nextSeq' = IF entry.fn = "adds" THEN nextSeq + 1 ELSE nextSeq
              /\ stack' = [stack EXCEPT ![n] = g] \o nested
              /\ busLast' = BusStep("invoke", f.event, threw,
                                    IF threw /\ Rethrown(f.event) THEN 1 ELSE 0,
                                    n, Len(evs["error"]))
  /\ UNCHANGED <<now, orchVars, cb, last, limVars, tabVars, alertVars, reqVars>>

\* The for loop of the innermost emit() is over: return true.
EmitReturns ==
  /\ stack # <<>>
  /\ stack[Len(stack)].idx > Len(Iterated(stack[Len(stack)]))
  /\ stack' = SubSeq(stack, 1, Len(stack) - 1)
  /\ busLast' = BusStep("return", stack[Len(stack)].event, FALSE, 0, Len(stack),
                        Len(events["error"]))
  /\ UNCHANGED <<events, nextSeq, fired>>
  /\ UNCHANGED <<now, orchVars, cb, last, limVars, tabVars, alertVars, reqVars>>

InitEmitter ==
  /\ now = 0
  /\ InitOrchestrator
  /\ cb = NewBreaker(StreamConfig["iss-position"].maxRetries)
  /\ last = Step("init", "none", "none", FALSE, "none", FALSE, <<>>, <<>>)
  /\ InitAux

NextEmitter ==
  \/ \E e \in EventNames, h \in Handlers : On(e, h)
  \/ \E e \in EventNames, h \in Handlers : Once(e, h)
  \/ \E e \in EventNames, h \in Handlers : PrependListener(e, h)
  \/ \E e \in EventNames, h \in Handlers : PrependOnceListener(e, h)
  \/ \E e \in EventNames, h \in Handlers : Off(e, h)
  \/ \E e \in EventNames : Emit(e)
  \/ Invoke
  \/ EmitReturns

SpecEmitter == InitEmitter /\ [][NextEmitter]_vars

\* An EventEmitter whose listeners subscribe and unsubscribe listeners of
\* the event being emitted.
NextSnapshot ==
  \/ \E e \in EventNames, h \in SnapshotHandlers : On(e, h)
  \/ \E e \in EventNames, h \in SnapshotHandlers : Off(e, h)
  \/ \E e \in EventNames : Emit(e)
  \/ Invoke
  \/ EmitReturns

SpecSnapshot == InitEmitter /\ [][NextSnapshot]_vars

(***************************************************************************)
(* The DynamicTabManager on top of the orchestrator.  initializeAllTabs    *)
(* creates the handlers and the update timers and then awaits              *)
(* startRealTimeStreams(); cleanup clears them and then awaits             *)
(* stopAllStreams().                                                       *)
(***************************************************************************)
\* initializeAllTabs up to its await of startRealTimeStreams().
InitializeAllTabs ==
  /\ tabPc \in {"new", "ready"}
  /\ tabPc' = "handlers"
  /\ activeHandlers' = Tabs
  /\ updateIntervals' = Tabs
  /\ tabTimers' = [tab \in Tabs |-> tabTimers[tab] + 1]
  /\ tabLast' = TabStep("initializeAllTabs", "none", <<>>)
  /\ UNCHANGED tabData
  /\ UNCHANGED <<now, orchVars, cb, last, limVars, busVars, alertVars, reqVars>>

\* startRealTimeStreams() has returned: 'tab-system-ready' is emitted.
TabSystemReady ==
  /\ tabPc = "handlers"
  /\ startPc = "done"
  /\ tabPc' = "ready"
  /\ tabLast' = TabStep("ready", "none",
                        <<TabEvent("tab-system-ready", "none", "none", "none")>>)
  /\ UNCHANGED <<activeHandlers, updateIntervals, tabTimers, tabData>>
  /\ UNCHANGED <<now, orchVars, cb, last, limVars, busVars, alertVars, reqVars>>

SwitchToTab(tab, origin) ==
  /\ tab \in Tabs
  /\ tabData' = UpdateTabData(tab)
  /\ tabLast' = TabStep("switchToTab", tab,
                        <<TabEvent("tab-switched", tab, "none", "none")>>
                        \o UpdateTabEvents(tab, origin))
  /\ UNCHANGED <<tabPc, activeHandlers, updateIntervals, tabTimers>>
  /\ UNCHANGED <<now, orchVars, cb, last, limVars, busVars, alertVars, reqVars>>

\* The update timer of a tab fires: updateTab.
UpdateTab(tab, origin) ==
  /\ tabTimers[tab] > 0
  /\ tabData' = UpdateTabData(tab)
  /\ tabLast' = TabStep("updateTab", tab, UpdateTabEvents(tab, origin))
  /\ UNCHANGED <<tabPc, activeHandlers, updateIntervals, tabTimers>>
  /\ UNCHANGED <<now, orchVars, cb, last, limVars, busVars, alertVars, reqVars>>

\* cleanup up to its await of stopAllStreams().
Cleanup ==
  /\ tabPc \in {"handlers", "ready"}
  /\ startPc \in {"idle", "done"}
  /\ tabPc' = "cleaned"
  /\ activeHandlers' = {}
  /\ updateIntervals' = {}
  /\ tabTimers' = [tab \in Tabs |->
                     IF tab \in updateIntervals THEN tabTimers[tab] - 1
                     ELSE tabTimers[tab]]
  /\ tabLast' = TabStep("cleanup", "none", <<>>)
  /\ UNCHANGED tabData
  /\ UNCHANGED <<now, orchVars, cb, last, limVars, busVars, alertVars, reqVars>>

InitTabs ==
  /\ now = 0
  /\ InitOrchestrator
  /\ cb = NewBreaker(StreamConfig["iss-position"].maxRetries)
  /\ last = Step("init", "none", "none", FALSE, "none", FALSE, <<>>, <<>>)
  /\ InitAux

NextTabs ==
  \/ tabPc = "new" /\ InitializeAllTabs
  \/ tabPc = "handlers" /\ starts = 0 /\ StartRealTimeStreams
  \/ ConnectionsTested(TRUE, TRUE)
  \/ HealthChecked(TRUE, TRUE)
  \/ TabSystemReady
  \/ \E tab \in ViewedTabs, origin \in TabDataOrigins : SwitchToTab(tab, origin)
  \/ \E tab \in ViewedTabs, origin \in TabDataOrigins : UpdateTab(tab, origin)
  \/ Cleanup
  \/ tabPc = "cleaned" /\ ~stopped /\ StopAllStreams
  \/ polls < MaxTabPolls /\ Poll
  \/ Settle
  \/ AdvanceTime

SpecTabs == InitTabs /\ [][NextTabs]_vars

\* initializeAllTabs() called again once it has returned, then cleanup().
\* TabInits is the number of initializeAllTabs() calls made so far; each
\* makes one startRealTimeStreams() call and returns when that has returned.
TabInits == tabTimers["dashboard"]

NextTabTimers ==
  \/ TabInits < MaxTabInits /\ InitializeAllTabs
  \/ tabPc = "handlers" /\ starts < TabInits /\ StartRealTimeStreams
  \/ ConnectionsTested(TRUE, TRUE)
  \/ HealthChecked(TRUE, TRUE)
  \/ starts = TabInits /\ TabSystemReady
  \/ \E tab \in ViewedTabs, origin \in TabDataOrigins : SwitchToTab(tab, origin)
  \/ \E tab \in ViewedTabs, origin \in TabDataOrigins : UpdateTab(tab, origin)
  \/ Cleanup
  \/ tabPc = "cleaned" /\ ~stopped /\ StopAllStreams

SpecTabTimers == InitTabs /\ [][NextTabTimers]_vars

(***************************************************************************)
(* The alert buffer under createAlert() calls.  Timeouts of one delay fire *)
(* in the order they were set, and none is still pending a whole clock     *)
(* sample after it fell due.  SpecAlerts makes a few calls of any level,   *)
(* SpecHistory enough calls of one level to overflow the buffer.           *)
(***************************************************************************)
AlertRaised(level) ==
  /\ LET id == alertsCreated + 1
         alert == Identified(CreateAlert(level, "alert", "system", now), id)
     IN /\ alerts' = Retained(Append(alerts, alert))
        /\ alertTimers' = IF alert.autoResolve
                          THEN Append(alertTimers,
                                      [id |-> id, due |-> now + AutoResolveDelay])
                          ELSE alertTimers
        /\ alertsCreated' = id
  /\ UNCHANGED <<now, orchVars, cb, last, limVars, busVars, tabVars, reqVars>>

AutoResolveTimer ==
  /\ alertTimers # <<>>
  /\ Head(alertTimers).due <= now
  /\ alerts' = AutoAcknowledge(alerts, Head(alertTimers).id)
  /\ alertTimers' = Tail(alertTimers)
  /\ UNCHANGED <<alertsCreated, now, orchVars, cb, last, limVars, busVars, tabVars,
               reqVars>>

AlertClock(steps) ==
  /\ now < steps * AutoResolveDelay
  /\ \A i \in 1..Len(alertTimers) : alertTimers[i].due > now
  /\ now' = now + AutoResolveDelay
  /\ UNCHANGED <<alertVars, orchVars, cb, last, limVars, busVars, tabVars, reqVars>>

NextAlerts ==
  \/ \E level \in AlertLevels : alertsCreated < MaxAlerts /\ AlertRaised(level)
  \/ AutoResolveTimer
  \/ AlertClock(MaxAlertSteps)

SpecAlerts == Init /\ [][NextAlerts]_vars

NextHistory ==
  \/ alertsCreated < MaxHistory /\ AlertRaised("warning")
  \/ AutoResolveTimer
  \/ AlertClock(MaxHistorySteps)

SpecHistory == Init /\ [][NextHistory]_vars

(***************************************************************************)
(* N2YOAPIClient.makeRequest() as the poll ticks of iss-position call it   *)
(* through fetchISSPosition() and getISSPosition()                         *)
(* (services/N2YOAPIClient.ts).  The clock counts from the construction of *)
(* the client, which lies more than MinRequestInterval after the Unix      *)
(* epoch, so the initial lastRequestTime of 0 is MinRequestInterval before *)
(* the clock's origin.  Network time is not counted: a reply arrives at    *)
(* the instant its request was sent.                                       *)
(***************************************************************************)
RequestOutcomes == {"ok", "rate-limited", "http-error", "api-error", "network-error"}

\* The delay makeRequest() awaits before the next attempt, by how the
\* attempt failed.
Backoff(outcome, n) ==
  IF outcome = "rate-limited" THEN RateLimitBackoff * n ELSE RetryBackoff * n

\* A poll tick of iss-position reaches makeRequest(): the loop starts at
\* attempt 1.  The previous tick's call has returned before this tick is due.
GetISSPosition ==
  /\ reqPc \in {"idle", "success", "failure"}
  /\ reqTicks < MaxRequestTicks
  /\ reqTicks > 0 => now <= tickStart + StreamConfig["iss-position"].updateFrequency
  /\ now' = IF reqTicks = 0 THEN now
            ELSE tickStart + StreamConfig["iss-position"].updateFrequency
  /\ tickStart' = now'
  /\ reqTicks' = reqTicks + 1
  /\ attempt' = 1
  /\ requests' = <<>>
  /\ reqPc' = "attempt"
  /\ UNCHANGED <<requestCount, lastRequestTime, orchVars, cb, last, limVars, busVars,
                 tabVars, alertVars>>

\* Top of the loop body up to the fetch() call: the throttling wait, the
\* bookkeeping and the request on the wire.
SendRequest ==
  /\ reqPc = "attempt"
  /\ now' = IF now - lastRequestTime < MinRequestInterval
            THEN now + ThrottleDelay ELSE now
  /\ lastRequestTime' = now
  /\ requestCount' = requestCount + 1
  /\ requests' = Append(requests, [attempt |-> attempt, reply |-> "pending"])
  /\ reqPc' = "fetching"
  /\ UNCHANGED <<attempt, tickStart, reqTicks, orchVars, cb, last, limVars, busVars,
                 tabVars, alertVars>>

\* The reply to the request in flight and the rest of the loop body: return
\* on success, otherwise wait and go round again until the attempts are used
\* up, then return success: false, on which fetchISSPosition() throws.
Replied(outcome) ==
  /\ reqPc = "fetching"
  /\ requests' = [requests EXCEPT ![Len(requests)].reply = outcome]
  /\ IF outcome = "ok"
       THEN reqPc' = "success" /\ UNCHANGED <<now, attempt>>
       ELSE IF attempt < Retries
         THEN /\ now' = now + Backoff(outcome, attempt)
              /\ attempt' = attempt + 1
              /\ reqPc' = "attempt"
         ELSE reqPc' = "failure" /\ UNCHANGED <<now, attempt>>
  /\ UNCHANGED <<requestCount, lastRequestTime, tickStart, reqTicks, orchVars, cb,
                 last, limVars, busVars, tabVars, alertVars>>

NextRequest ==
  \/ GetISSPosition
  \/ SendRequest
  \/ \E outcome \in RequestOutcomes : Replied(outcome)

SpecRequest == Init /\ [][NextRequest]_vars

(***************************************************************************)
(* Properties                                                              *)
(***************************************************************************)
PublishedFromCache(e) == e.name = "update" /\ e.origin = "cache"

ServedFromCache == \E i \in 1..Len(last.events) : PublishedFromCache(last.events[i])

NoCachedDataAlert(a, s) ==
  a.level = "warning" /\ a.message = "no-cached-data" /\ a.source = s

\* The step consulted the response cache of last.stream: a tick
\* short-circuited by the breaker, or a tick whose fetch threw.
ConsultedCache ==
  \/ last.op = "tick" /\ last.open
  \/ last.op = "settled" /\ last.path = "failure"

\* C1: for any single stream at most one fetch is in flight at any instant.
C1_NoOverlappingFetches == \A s \in Streams : Len(inflight[s]) <= 1

\* C2: a fetch that settles after its stream was deactivated by
\* stopAllStreams() writes no cache entry, publishes nothing and leaves the
\* stream's runtime state and breaker as they were.
C2_DiscardedAfterStop ==
  [][\A s \in Streams :
       (/\ Len(inflight'[s]) < Len(inflight[s])
        /\ ~Current(streamHealth[s]).isActive)
       => /\ dataCache'[s] = dataCache[s]
          /\ Current(streamHealth'[s]) = Current(streamHealth[s])
          /\ Current(circuitBreakers'[s]) = Current(circuitBreakers[s])
          /\ last'.events = <<>>]_vars

\* C3: a poll tick that begins while the stream's breaker is open and the
\* reset timeout has not elapsed since the last failure starts no fetch; it
\* publishes the cached payload, discounted, or raises the "no cached data"
\* warning, and nothing else.
C3_OpenBreakerTickStartsNoFetch ==
  [][\A s \in Streams :
       (/\ polls' = polls + 1
        /\ last'.stream = s
        /\ Current(circuitBreakers[s]).state = "open"
        /\ now - Current(circuitBreakers[s]).lastFailTime <= ResetTimeout)
       => /\ inflight'[s] = inflight[s]
          /\ \/ /\ Len(last'.events) = 1
                /\ PublishedFromCache(last'.events[1])
                /\ last'.events[1].quality # "good"
                /\ last'.alerts = <<>>
             \/ /\ last'.events = <<>>
                /\ Len(last'.alerts) = 1
                /\ NoCachedDataAlert(last'.alerts[1], s)]_vars

C3_Witness ==
  /\ last.op = "tick"
  /\ last.before = "open"
  /\ last.open
  /\ ServedFromCache

\* C4: once isOpen() has let the half-open trial through, no further isOpen()
\* call returns false until a success or a failure has been recorded: a tick
\* that finds the breaker already half-open is not let through.
C4_SingleHalfOpenTrial ==
  ~(last.op = "tick" /\ last.before = "half-open" /\ ~last.open)

\* C5: once consecutive failures have brought the failure count to
\* failureThreshold (and no success has been recorded since), every isOpen()
\* call made no later than resetTimeout after the last recorded failure
\* returns true.
C5_BreakerStaysOpen ==
  (/\ last.op = "isOpen"
   /\ cb.failures >= cb.failureThreshold
   /\ now - cb.lastFailTime <= ResetTimeout)
  => last.open

C5_Witness ==
  /\ last.op = "isOpen"
  /\ cb.failures >= cb.failureThreshold
  /\ now - cb.lastFailTime = ResetTimeout
  /\ last.open

ClosedToOpen ==
  /\ cb.state = "closed" /\ cb'.state = "open"
  /\ last'.op = "recordFailure"
  /\ cb'.failures >= cb.failureThreshold

OpenToHalfOpen ==
  /\ cb.state = "open" /\ cb'.state = "half-open"
  /\ last'.op = "isOpen"
  /\ now - cb.lastFailTime > ResetTimeout

HalfOpenToClosed ==
  /\ cb.state = "half-open" /\ cb'.state = "closed"
  /\ last'.op = "recordSuccess"

HalfOpenToOpen ==
  /\ cb.state = "half-open" /\ cb'.state = "open"
  /\ last'.op = "recordFailure"

OpenToClosed ==
  /\ cb.state = "open" /\ cb'.state = "closed"
  /\ last'.op = "recordSuccess"

\* C6 as stated: every change of the breaker's state is one of the four
\* listed transitions.
C6_OnlyFourTransitions ==
  [][cb'.state # cb.state
     => ClosedToOpen \/ OpenToHalfOpen \/ HalfOpenToClosed \/ HalfOpenToOpen]_vars

\* C6 as amended: every change of the breaker's state is one of the four
\* listed transitions or open to closed on a recordSuccess() made while the
\* breaker is open.
C6_FiveTransitions ==
  [][cb'.state # cb.state
     => \/ ClosedToOpen \/ OpenToHalfOpen \/ HalfOpenToClosed \/ HalfOpenToOpen
        \/ OpenToClosed]_vars

C6_Witness ==
  /\ last.op = "recordSuccess"
  /\ last.before = "open"
  /\ cb.state = "closed"

\* C7: every payload published from the response cache has a quality other
\* than good and a confidence strictly below the confidence of the payload as
\* it was fetched and cached.
C7_CacheDiscount ==
  \A i \in 1..Len(last.events) :
    PublishedFromCache(last.events[i])
    => /\ last.events[i].quality # "good"
       /\ dataCache[last.events[i].stream].present
       /\ last.events[i].confidence < dataCache[last.events[i].stream].confidence

C7_Witness ==
  /\ last.op = "settled"
  /\ last.path = "failure"
  /\ ServedFromCache

\* C8: a cache entry expires CacheTTL after the put that wrote it; a step that
\* consults the cache publishes the cached payload only while
\* now < expiryTime, and otherwise publishes no update and raises the
\* warning alert.
C8_ServedOnlyWhileFresh ==
  ConsultedCache =>
    LET s == last.stream
        e == dataCache[s]
    IN /\ e.present => e.expiryTime = e.timestamp + CacheTTL
       /\ ServedFromCache => e.present /\ now < e.timestamp + CacheTTL
       /\ ~ServedFromCache =>
            /\ ~e.present \/ now >= e.timestamp + CacheTTL
            /\ \A i \in 1..Len(last.events) : last.events[i].name # "update"
            /\ \E i \in 1..Len(last.alerts) : NoCachedDataAlert(last.alerts[i], s)

C8_Witness ==
  /\ ConsultedCache
  /\ dataCache[last.stream].present
  /\ now = dataCache[last.stream].expiryTime
  /\ ~ServedFromCache

\* C9: after stopAllStreams() has returned, and until startRealTimeStreams()
\* is called again, no poll tick of any stream begins.
C9_NoTickAfterStop == ~(last.op = "tick" /\ stopped)

\* C10: a poll tick starts its fetch only after a token was acquired from the
\* rate limiter of the API it calls, so that API has a rate limiter.
C10_FetchHoldsToken ==
  (last.op = "tick" /\ last.path = "fetch")
  => ApiOf(last.stream) \in DOMAIN rateLimiters

\* C11: every call of waitForToken() that has to wait eventually returns.
C11_AcquireReturns ==
  \A c \in Callers : (callers[c].pc = "sleeping") ~> (callers[c].pc = "idle")

\* C12: among the returns of waitForToken() on one limiter, any k of them
\* made within a window of T milliseconds satisfy k <= R*T + 10*R, that is
\* k * TokenMs <= T + MaxTokens.
C12_WindowBound ==
  \A i \in 1..Len(grants) : \A j \in i..Len(grants) :
    (j - i + 1) * TokenMs(limiter.api) <= (grants[i] - grants[j]) + MaxTokens

C12_Witness ==
  /\ Len(grants) >= 4
  /\ grants[Len(grants)] = 0
  /\ \E c \in Callers : callers[c].pc = "sleeping"

\* Every emit() in progress has invoked, in order and without a gap, the
\* listeners that were in the event's array when it was called, and has
\* invoked all of them when its loop is over.
InvokesAllRegistered ==
  \A k \in 1..Len(stack) :
    LET f == stack[k]
    IN /\ f.idx - 1 <= Len(f.atEmit)
       /\ f.invoked = SubSeq(f.atEmit, 1, f.idx - 1)
       /\ f.idx > Len(Iterated(f)) => f.invoked = f.atEmit

\* C13 as stated: emit() invokes every listener registered when it was
\* called, a throwing listener notwithstanding, in the order in which the
\* listeners were subscribed.
C13_SubscriptionOrder ==
  /\ InvokesAllRegistered
  /\ \A k \in 1..Len(stack) :
       \A i \in 1..Len(stack[k].invoked) : \A j \in (i + 1)..Len(stack[k].invoked) :
         stack[k].invoked[i].seq < stack[k].invoked[j].seq

\* C13 as amended: emit() invokes every listener registered when it was
\* called, a throwing listener notwithstanding, in the order of the event's
\* listener array: the prepended listeners first, latest subscription first,
\* then the appended ones in the order they were subscribed.
C13_ArrayOrder ==
  /\ InvokesAllRegistered
  /\ \A k \in 1..Len(stack) :
       \A i \in 1..Len(stack[k].invoked) : \A j \in (i + 1)..Len(stack[k].invoked) :
         LET a == stack[k].invoked[i]
             b == stack[k].invoked[j]
         IN /\ (a.front /\ b.front) => a.seq > b.seq
            /\ (~a.front /\ ~b.front) => a.seq < b.seq
            /\ ~(~a.front /\ b.front)

C13_Witness ==
  /\ stack # <<>>
  /\ LET f == stack[Len(stack)]
     IN /\ f.idx > Len(f.copy)
        /\ Len(f.invoked) = 2
        /\ f.invoked[1].fn = "throws"
        /\ f.invoked[1].front
        /\ f.invoked[1].seq > f.invoked[2].seq

\* C14: a throw from a listener of an event other than 'error' is followed
\* by exactly one emit of 'error'; a throw from a listener of 'error' is
\* followed by none, so that no emit of 'error' made for a throw is nested
\* in an emit of 'error'.
C14_ErrorRepublishedOnce ==
  /\ (busLast.op = "invoke" /\ busLast.threw /\ busLast.event # "error")
     => /\ busLast.republished = 1
        /\ busLast.errorListeners = 0 => Len(stack) = busLast.depthBefore
        /\ busLast.errorListeners > 0 =>
             /\ Len(stack) = busLast.depthBefore + 1
             /\ stack[Len(stack)].event = "error"
             /\ stack[Len(stack)].cause = "rethrow"
  /\ (busLast.op = "invoke" /\ busLast.threw /\ busLast.event = "error")
     => /\ busLast.republished = 0
        /\ Len(stack) = busLast.depthBefore
  /\ \A k \in 2..Len(stack) :
       stack[k].cause = "rethrow" => stack[k - 1].event # "error"
  /\ Len(stack) <= MaxEmitDepth + 1

C14_Witness ==
  /\ busLast.op = "invoke"
  /\ busLast.threw
  /\ busLast.event = "error"
  /\ busLast.depthBefore = 2
  /\ stack[2].cause = "rethrow"

\* C15: the handler of a once() or prependOnceListener() subscription is
\* invoked at most once.
C15_OnceFiresOnce == \A n \in 1..MaxSubs : fired[n] <= 1

SwitchedTo(tab) ==
  /\ tabLast' # tabLast
  /\ tabLast'.op = "switchToTab"
  /\ tabLast'.tab = tab

\* C16: when switchToTab(tab) returns, the poll timer of every stream the
\* tab requires is running and the stream is marked active.
C16_SwitchStartsStreams ==
  [][\A tab \in Tabs :
       SwitchedTo(tab) =>
         \A s \in RequiredStreams(tab) :
           /\ liveTimers'[s] > 0
           /\ Len(streamHealth'[s]) > 0
           /\ Current(streamHealth'[s]).isActive]_vars

\* C17: switchToTab(tab) publishes, for every stream the tab requires whose
\* cache entry has not expired, an event that carries the cached payload of
\* that stream.
C17_SwitchPublishesCache ==
  [][\A tab \in Tabs :
       SwitchedTo(tab) =>
         \A s \in RequiredStreams(tab) :
           CacheHit(dataCache[s], now) =>
             \E i \in 1..Len(tabLast'.events) :
               /\ tabLast'.events[i].origin = "cache"
               /\ tabLast'.events[i].stream = s]_vars

\* C18: when startRealTimeStreams() has run with no upstream API reachable,
\* the aggregate status is 'critical', an 'emergency' alert has been
\* created and a 'critical-failure' event has been published.
C18_InitFailureEscalates ==
  (/\ last.op = "initialized"
   /\ ~apiStatuses["nasa"].isOnline
   /\ ~apiStatuses["n2yo"].isOnline)
  => /\ status = "critical"
     /\ \E i \in 1..Len(last.alerts) : last.alerts[i].level = "emergency"
     /\ \E i \in 1..Len(last.events) : last.events[i].name = "critical-failure"

\* C19: no poll tick waits for its upstream call longer than the timeout
\* configured for the API of its stream; by then the call has been treated
\* as a failure and the tick has completed.
C19_FetchBoundedByTimeout ==
  \A s \in Streams : \A i \in 1..Len(inflight[s]) :
    now - inflight[s][i].start
      <= (IF ApiOf(s) = "nasa" THEN NasaTimeout ELSE N2yoTimeout)

TickOf(a) ==
  /\ last' # last
  /\ last'.op \in {"tick", "settled"}
  /\ last'.stream = a

\* C20: a poll tick of stream a, in either of its steps and on each of its
\* paths, leaves the circuit breaker, the health record (errorCount,
\* lastDataReceived, isActive) and the cache entry of every other stream
\* unchanged, and a tick whose upstream call threw ends by publishing an
\* error event and raising an alert for a.
C20_StreamIsolation ==
  [][\A a \in Streams :
       TickOf(a) =>
         /\ \A b \in Streams \ {a} :
              /\ circuitBreakers'[b] = circuitBreakers[b]
              /\ streamHealth'[b] = streamHealth[b]
              /\ dataCache'[b] = dataCache[b]
         /\ last'.path \in {"cached", "nocache", "fetch", "success", "failure"}
         /\ last'.path = "failure" =>
              /\ \E i \in 1..Len(last'.events) :
                   /\ last'.events[i].name = "error"
                   /\ last'.events[i].stream = a
              /\ \E i \in 1..Len(last'.alerts) : last'.alerts[i].source = a]_vars

\* A tick of iss-position has failed and one of earth-imagery has succeeded
\* while the other stream had a cache entry, a failure on its breaker and a
\* call in flight.
C20_Witness ==
  /\ last.op = "settled"
  /\ last.stream = "earth-imagery"
  /\ last.path = "success"
  /\ dataCache["iss-position"].present
  /\ Current(circuitBreakers["iss-position"]).failures > 0
  /\ Current(streamHealth["iss-position"]).errorCount > 0
  /\ Len(inflight["iss-position"]) > 0

\* C21: an alert of a level other than 'emergency' that is held in the
\* buffer is acknowledged once more than the auto-resolve delay has passed
\* since its creation; an 'emergency' alert has autoResolve = false and is
\* never acknowledged.
C21_AutoResolution ==
  \A i \in 1..Len(alerts) :
    /\ (alerts[i].level # "emergency" /\ now - alerts[i].timestamp > AutoResolveDelay)
       => alerts[i].acknowledged
    /\ alerts[i].level = "emergency"
       => ~alerts[i].autoResolve /\ ~alerts[i].acknowledged

\* A warning alert has been acknowledged by its timeout and an emergency
\* alert older than the delay is held.
C21_Witness ==
  /\ \E i, j \in 1..Len(alerts) :
       /\ alerts[i].level = "warning"
       /\ alerts[i].acknowledged
       /\ alerts[j].level = "emergency"
       /\ now - alerts[j].timestamp > AutoResolveDelay

\* C22: the buffer holds at most AlertCapacity alerts, and they are the most
\* recently created ones in the order of their creation.
C22_BoundedHistory ==
  /\ Len(alerts) = Min(alertsCreated, AlertCapacity)
  /\ \A i \in 1..Len(alerts) : alerts[i].id = alertsCreated - Len(alerts) + i

C22_Witness == alertsCreated > AlertCapacity /\ Len(alerts) = AlertCapacity

HealthCheckCompleted ==
  /\ last'.op \in {"initialized", "health-check"}
  /\ last' # last \/ apiStatuses' # apiStatuses

\* C23: when a health check completes, the status is 'operational' if both
\* APIs are online, 'degraded' if exactly one is and 'critical' if neither
\* is, and the consecutiveFailures of an API is 0 if it is online and one
\* more than before the check if it is not.
C23_HealthCheckRule ==
  [][HealthCheckCompleted =>
       /\ status' = (IF \A a \in Apis : apiStatuses'[a].isOnline
                     THEN "operational"
                     ELSE IF \E a \in Apis : apiStatuses'[a].isOnline
                     THEN "degraded"
                     ELSE "critical")
       /\ \A a \in Apis :
            apiStatuses'[a].consecutiveFailures =
              (IF apiStatuses'[a].isOnline THEN 0
               ELSE apiStatuses[a].consecutiveFailures + 1)]_vars

\* A health check has left one API online and the other with two failed
\* probes in a row.
C23_Witness ==
  /\ last.op = "health-check"
  /\ status = "degraded"
  /\ apiStatuses["nasa"].isOnline
  /\ apiStatuses["n2yo"].consecutiveFailures = 2

\* A sweep raises a staleness warning for exactly the streams whose data is
\* older than their limit.
SweepRaisesForStale ==
  (last' # last /\ last'.op = "sweep") =>
    \A s \in Streams :
      Stale(s, now) <=>
        \E i \in 1..Len(last'.alerts) :
          /\ last'.alerts[i].source = s
          /\ last'.alerts[i].level = "warning"
          /\ last'.alerts[i].message = "stale-data"

\* The lastDataReceived of a registered stream moves forward only in the
\* step in which a fetch of that stream succeeds.
AdvancesOnSuccessOnly ==
  \A s \in Streams :
    (/\ Len(streamHealth[s]) > 0
     /\ Len(streamHealth'[s]) > 0
     /\ Current(streamHealth'[s]).lastDataReceived
          > Current(streamHealth[s]).lastDataReceived)
    => /\ last'.op = "settled"
       /\ last'.stream = s
       /\ last'.path = "success"

\* C24: every sweep raises a staleness warning for exactly the registered
\* streams whose time since lastDataReceived exceeds dataAgeLimit, and
\* lastDataReceived advances only on a successful live fetch.
C24_StalenessSweep == [][SweepRaisesForStale /\ AdvancesOnSuccessOnly]_vars

\* C25: once cleanup() has returned, no handler is registered and no tab
\* update interval the manager has set is still running.
C25_CleanupStopsEverything ==
  (tabPc = "cleaned" /\ stopped)
  => /\ activeHandlers = {}
     /\ \A tab \in Tabs : tabTimers[tab] = 0

PollStepOf(s) ==
  /\ last' # last
  /\ last'.op \in {"tick", "settled"}
  /\ last'.stream = s

\* C26: a poll tick whose fetch fails raises the stream's errorCount by
\* exactly 1 and publishes its error event with retryable = true exactly
\* when the count so reached is below maxRetries; a tick whose fetch
\* succeeds resets errorCount to 0; a tick that starts a fetch or is
\* short-circuited by the open breaker leaves errorCount unchanged.
C26_ErrorCountPerTick ==
  [][\A s \in Streams :
       PollStepOf(s) =>
         LET before == Current(streamHealth[s]).errorCount
             after == Current(streamHealth'[s]).errorCount
         IN CASE last'.path = "failure" ->
                   /\ after = before + 1
                   /\ \A i \in 1..Len(last'.events) :
                        last'.events[i].name = "error" =>
                          (last'.events[i].retryable
                             <=> before + 1 < StreamConfig[s].maxRetries)
              [] last'.path = "success" -> after = 0
              [] OTHER -> after = before]_vars

\* The step in which the fetch of s settles records a failure on the breaker
\* of s, publishes the error event of s, and neither caches nor publishes a
\* payload of quality 'good'.
FailureRecorded(s) ==
  /\ Current(circuitBreakers'[s]).failures = Current(circuitBreakers[s]).failures + 1
  /\ \E i \in 1..Len(last'.events) :
       last'.events[i].name = "error" /\ last'.events[i].stream = s
  /\ \A i \in 1..Len(last'.events) : last'.events[i].quality # "good"
  /\ dataCache'[s] = dataCache[s]

\* C27: for every stream and every poll tick awaiting its upstream calls,
\* the step that follows when those calls fail records a failure on the
\* stream's breaker and publishes '<streamId>-error', and caches and
\* publishes nothing of quality 'good'.
C27_UpstreamFailureRecorded ==
  \A s \in Streams : \A i \in 1..Len(inflight[s]) :
    \A outcome \in {o \in FetchOutcomes(s) : UpstreamFailed(s, o)} :
      ~ENABLED (FetchSettled(s, i, outcome) /\ ~FailureRecorded(s))

\* C28: within one poll tick the upstream request is sent at most once; a
\* failed attempt is not repeated before the stream's next tick.
C28_NoInTickRetry == Len(requests) <= 1

\* The state of a breaker agrees with its failure count.
Consistent(b) ==
  /\ b.state = "closed" => b.failures < b.failureThreshold
  /\ b.state \in {"open", "half-open"} => b.failures >= b.failureThreshold

\* C29: a breaker is 'closed' only with fewer failures than failureThreshold
\* and 'open' or 'half-open' only with at least failureThreshold failures;
\* recordSuccess() from any state leaves it 'closed' with no failures.
C29_BreakerConsistent ==
  /\ Consistent(cb)
  /\ last.op = "recordSuccess" => cb.failures = 0 /\ cb.state = "closed"

\* recordSuccess() has just closed a half-open breaker.
C29_Witness ==
  /\ last.op = "recordSuccess"
  /\ last.before = "half-open"
  /\ cb = NewBreaker(cb.failureThreshold)

\* The subscriptions held by a listener array.
Subscriptions(ls) == {ls[i].seq : i \in 1..Len(ls)}

\* C30: an emit() invokes the listeners that were in the event's array when
\* it started and no others.  A listener subscribed during the emission, or
\* taken off before it started, is not invoked by it; a listener taken off
\* during the emission is invoked by it all the same.
C30_DeliversToSnapshot ==
  \A k \in 1..Len(stack) :
    LET f == stack[k]
    IN /\ Subscriptions(f.invoked) \subseteq Subscriptions(f.atEmit)
       /\ Len(f.invoked) = f.idx - 1
       /\ f.idx > Len(Iterated(f)) =>
            Subscriptions(f.invoked) = Subscriptions(f.atEmit)

\* An emit() has come to its end after one of its listeners took off a
\* listener yet to be invoked and that listener subscribed a new one: the
\* first was invoked, the second was not.
C30_Witness ==
  /\ stack # <<>>
  /\ LET f == stack[Len(stack)]
     IN /\ f.idx > Len(f.copy)
        /\ \E n \in Subscriptions(f.invoked) : n \notin Subscriptions(events[f.event])
        /\ \E n \in Subscriptions(events[f.event]) : n \notin Subscriptions(f.invoked)

====
